---- MODULE Spec2Model ----
(***************************************************************************)
(* Model of kube-client-ext: the pod resolvers of KubeClientExt2           *)
(* (src/src/ext2.rs) and the error helper not_found_ok (src/src/helper.rs).*)
(*                                                                         *)
(* Rust's Option<T> is modelled as a sequence of length at most one:       *)
(* None is <<>> and Some(x) is <<x>>.  A BTreeMap<String, String> is a     *)
(* function from its keys to its values.  Strings that are formatted and   *)
(* parsed (label selectors) are sequences of one-character strings.        *)
(***************************************************************************)
EXTENDS Naturals, Sequences, FiniteSets, TLC

None == <<>>
Some(x) == <<x>>
IsSome(o) == o # <<>>
Unwrap(o) == o[1]

(* ---------------------------------------------------------------------- *)
(* Pod templates and their canonicalization                                *)
(* ---------------------------------------------------------------------- *)

\* k8s::label::DEFAULT_DEPLOYMENT_UNIQUE_LABEL_KEY
DEFAULT_DEPLOYMENT_UNIQUE_LABEL_KEY == "pod-template-hash"

LabelKeys == {DEFAULT_DEPLOYMENT_UNIQUE_LABEL_KEY, "app"}
LabelValues == {"v1", "v2"}

\* every BTreeMap over LabelKeys -> LabelValues
LabelMaps == UNION {[D -> LabelValues] : D \in SUBSET LabelKeys}

\* metav1::ObjectMeta: the label map and one more field
ObjectMetas == [labels : {None} \cup {Some(m) : m \in LabelMaps},
                annotations : {None, Some("a1")}]

\* corev1::PodTemplateSpec { metadata: Option<ObjectMeta>, spec: Option<PodSpec> }
PodTemplateSpecs == [metadata : {None} \cup {Some(m) : m \in ObjectMetas},
                     spec : {"s1", "s2"}]

\* BTreeMap::remove(key)
MapRemove(m, k) == [x \in (DOMAIN m) \ {k} |-> m[x]]

\* template.metadata.as_mut()?.labels.as_mut()
labels_mut(template) ==
    IF template.metadata = None THEN None
    ELSE Unwrap(template.metadata).labels

remove_hash(template) ==
    LET labels == labels_mut(template) IN
    IF IsSome(labels)
    THEN [template EXCEPT !.metadata =
            Some([Unwrap(template.metadata) EXCEPT !.labels =
                    Some(MapRemove(Unwrap(labels), DEFAULT_DEPLOYMENT_UNIQUE_LABEL_KEY))])]
    ELSE template

\* Option::map(remove_hash)
OptionMapRemoveHash(o) == IF IsSome(o) THEN Some(remove_hash(Unwrap(o))) ELSE None

\* match_template_spec_no_hash applied to rs.template() and deployment.template()
match_template_spec_no_hash(rs_template, deployment_template) ==
    OptionMapRemoveHash(rs_template) = OptionMapRemoveHash(deployment_template)

(* ---------------------------------------------------------------------- *)
(* Errors and the not-found helper                                         *)
(* ---------------------------------------------------------------------- *)

\* http::StatusCode::NOT_FOUND, the code Status::is_not_found tests
NOT_FOUND == 404

\* kube_client::Error: an API error carrying a Status, or any other variant
ApiError(code) == [variant |-> "Api", status |-> [code |-> code]]
ServiceError == [variant |-> "Service", status |-> [code |-> 0]]
Errors == {ApiError(NOT_FOUND), ApiError(403), ApiError(409), ServiceError}

\* Status::is_not_found
is_not_found(status) == status.code = NOT_FOUND

Ok(v) == [tag |-> "Ok", val |-> Some(v), err |-> None]
Err(e) == [tag |-> "Err", val |-> None, err |-> Some(e)]

\* either::Either<K, Status>
Right(status) == [side |-> "Right", status |-> status]

not_found_ok_swallows_all_api(err) ==
    IF err.variant = "Api" THEN Ok(Right(err.status)) ELSE Err(err)

not_found_ok(err) ==
    IF err.variant = "Api" /\ is_not_found(err.status)
    THEN Ok(Right(err.status))
    ELSE Err(err)

ignore_not_found(err) == not_found_ok(err)

(* ---------------------------------------------------------------------- *)
(* API objects                                                             *)
(* ---------------------------------------------------------------------- *)

\* k8s::label::CONTROLLER_REVISION_HASH_LABEL_KEY, as characters
CONTROLLER_REVISION_HASH_LABEL_KEY ==
    <<"c","o","n","t","r","o","l","l","e","r","-",
      "r","e","v","i","s","i","o","n","-","h","a","s","h">>
AppKey == <<"a","p","p">>

\* current-revision values a StatefulSet controller publishes
Rev1 == <<"d","b","-","1">>
Rev2 == <<"d","b","-","2">>

Namespace == "ns1"
OtherNamespace == "ns2"

OwnerRef(kind, name, controller) ==
    [kind |-> kind, name |-> name, controller |-> controller]

\* the pod templates that occur in the cluster
Template(spec, labels) ==
    [metadata |-> Some([labels |-> labels, annotations |-> None]), spec |-> spec]
TemplateA == Template("s1", Some([k \in {"app"} |-> "v1"]))
TemplateB == Template("s2", Some([k \in {"app"} |-> "v1"]))
WithHash(t, h) ==
    [t EXCEPT !.metadata = Some([Unwrap(t.metadata) EXCEPT !.labels =
        Some([k \in LabelKeys |->
                IF k = DEFAULT_DEPLOYMENT_UNIQUE_LABEL_KEY THEN h
                ELSE Unwrap(Unwrap(t.metadata).labels)[k]])])]

Deployment(name, template) ==
    [kind |-> "Deployment", namespace |-> Some(Namespace), name |-> name,
     template |-> Some(template)]
DeploymentObjects == {Deployment("web", TemplateA), Deployment("web", TemplateB)}

StatefulSet(name, revision) ==
    [kind |-> "StatefulSet", namespace |-> Some(Namespace), name |-> name,
     current_revision |-> revision]
StatefulSetObjects ==
    {StatefulSet("db", None), StatefulSet("db", Some(Rev1)), StatefulSet("db", Some(Rev2))}

\* The replica sets that can be created, by name.  Listings are in name order.
ReplicaSetIds == 1 .. 4
ReplicaSetName(i) ==
    CASE i = 1 -> "rs1" [] i = 2 -> "rs2" [] i = 3 -> "rs3" [] OTHER -> "rs4"
ReplicaSetOwners(i) ==
    CASE i \in {1, 2, 3} -> {OwnerRef("Deployment", "web", TRUE)}
      [] OTHER -> {OwnerRef("Deployment", "web", FALSE),
                   OwnerRef("Deployment", "other", TRUE)}
ReplicaSetTemplate(i) ==
    CASE i = 1 -> WithHash(TemplateA, "v1")
      [] i = 2 -> WithHash(TemplateA, "v2")
      [] i = 3 -> WithHash(TemplateB, "v1")
      [] OTHER -> WithHash(TemplateA, "v1")
ReplicaSet(i, ts) ==
    [kind |-> "ReplicaSet", namespace |-> Some(Namespace), name |-> ReplicaSetName(i),
     creation_timestamp |-> Some(ts), owner_references |-> ReplicaSetOwners(i),
     template |-> Some(ReplicaSetTemplate(i))]

\* The pods that can be created, by name.  Listings are in name order.
PodIds == 1 .. 4
PodName(i) ==
    CASE i = 1 -> "p1" [] i = 2 -> "p2" [] i = 3 -> "p3" [] OTHER -> "p4"
PodNamespace(i) == IF i = 4 THEN OtherNamespace ELSE Namespace
PodOwners(i) ==
    CASE i = 1 -> {OwnerRef("ReplicaSet", "rs1", TRUE)}
      [] i = 2 -> {OwnerRef("ReplicaSet", "rs2", TRUE)}
      [] i = 3 -> {OwnerRef("ReplicaSet", "rs1", FALSE),
                   OwnerRef("StatefulSet", "rs1", TRUE)}
      [] OTHER -> {OwnerRef("ReplicaSet", "rs1", TRUE)}
PodLabels(i) ==
    CASE i = 1 -> Some([k \in {CONTROLLER_REVISION_HASH_LABEL_KEY, AppKey} |-> Rev1])
      [] i = 2 -> Some([k \in {CONTROLLER_REVISION_HASH_LABEL_KEY} |-> Rev2])
      [] i = 3 -> None
      [] OTHER -> Some([k \in {CONTROLLER_REVISION_HASH_LABEL_KEY} |-> Rev1])
Pod(i) ==
    [kind |-> "Pod", namespace |-> Some(PodNamespace(i)), name |-> PodName(i),
     owner_references |-> PodOwners(i), labels |-> PodLabels(i)]

\* OwnerReferenceExt::is_controlled_by
is_controlled_by(object, owner) ==
    \E ref \in object.owner_references :
        ref.controller /\ ref.kind = owner.kind /\ ref.name = owner.name

(* ---------------------------------------------------------------------- *)
(* Sequence helpers: listing order and Vec::sort_by_key                     *)
(* ---------------------------------------------------------------------- *)

MinOf(S) == CHOOSE x \in S : \A y \in S : x <= y

\* the elements of a set of numbers as a sequence in ascending order
RECURSIVE Ascending(_)
Ascending(S) ==
    IF S = {} THEN <<>> ELSE <<MinOf(S)>> \o Ascending(S \ {MinOf(S)})

\* Option<Time> orders None before every Some
TimestampKey(rs) ==
    IF IsSome(rs.creation_timestamp) THEN Unwrap(rs.creation_timestamp) ELSE 0

InsertByKey(x, sorted) ==
    LET k == Cardinality({i \in 1 .. Len(sorted) :
                             TimestampKey(sorted[i]) <= TimestampKey(x)})
    IN SubSeq(sorted, 1, k) \o <<x>> \o SubSeq(sorted, k + 1, Len(sorted))

RECURSIVE sort_by_key_rec(_)
sort_by_key_rec(seq) ==
    IF seq = <<>> THEN <<>>
    ELSE InsertByKey(seq[Len(seq)], sort_by_key_rec(SubSeq(seq, 1, Len(seq) - 1)))

sort_skipped(seq) == seq

\* replicasets.sort_by_key(|rs| rs.creation_timestamp()): a stable sort
sort_by_key(seq) == sort_by_key_rec(seq)

(* ---------------------------------------------------------------------- *)
(* State                                                                   *)
(* ---------------------------------------------------------------------- *)

MaxReplicaSets == 2
MaxPods == 2
MaxTimestamp == 2

Resolvers == {"r1", "r2"}

VARIABLES
    deployment,     \* the cluster's Deployment "web", an Option
    statefulset,    \* the cluster's StatefulSet "db", an Option
    replicasets,    \* the cluster's replica sets: records [id, ts]
    pods,           \* the cluster's pods: a set of PodIds
    pc,             \* per resolver call: the await it is suspended at
    op,             \* per resolver call: the operation called
    parent,         \* per resolver call: the Deployment or StatefulSet, an Option
    new,            \* per resolver call: the selected replica set, an Option
    reads,          \* per resolver call: the remote reads made, with their responses
    result,         \* per resolver call: the value returned, an Option
    pure            \* inputs and output of a pure-function application

cluster == <<deployment, statefulset, replicasets, pods>>
calls == <<pc, op, parent, new, reads, result>>
vars == <<deployment, statefulset, replicasets, pods,
          pc, op, parent, new, reads, result, pure>>

(* ---------------------------------------------------------------------- *)
(* The API server, as seen through kube::Api (the Object Accessor)         *)
(* ---------------------------------------------------------------------- *)

\* Api::namespaced(ns) or Api::default_namespaced()
namespaced_k(namespace) == IF IsSome(namespace) THEN Unwrap(namespace) ELSE "default"

TimestampOf(i) == (CHOOSE rs \in replicasets : rs.id = i).ts

AllReplicaSets ==
    LET ids == Ascending({rs.id : rs \in replicasets}) IN
    [n \in 1 .. Len(ids) |-> ReplicaSet(ids[n], TimestampOf(ids[n]))]

AllPods ==
    LET ids == Ascending(pods) IN [n \in 1 .. Len(ids) |-> Pod(ids[n])]

IndexOf(s, c) ==
    LET hits == {i \in 1 .. Len(s) : s[i] = c} IN
    IF hits = {} THEN 0 ELSE MinOf(hits)

RECURSIVE SplitOn(_, _)
SplitOn(s, c) ==
    LET i == IndexOf(s, c) IN
    IF i = 0 THEN <<s>>
    ELSE <<SubSeq(s, 1, i - 1)>> \o SplitOn(SubSeq(s, i + 1, Len(s)), c)

\* the server's reading of a label selector "k1=v1,k2=v2"
ParseSelector(selector) ==
    LET parts == SplitOn(selector, ",") IN
    {[key |-> SubSeq(parts[n], 1, IndexOf(parts[n], "=") - 1),
      value |-> SubSeq(parts[n], IndexOf(parts[n], "=") + 1, Len(parts[n]))]
        : n \in 1 .. Len(parts)}

SelectorMatches(labels, selector) ==
    \/ selector = None
    \/ \A req \in ParseSelector(Unwrap(selector)) :
          /\ IsSome(labels)
          /\ req.key \in DOMAIN Unwrap(labels)
          /\ Unwrap(labels)[req.key] = req.value

InNamespace(object, ns) == object.namespace = Some(ns)

\* the items of a successful list call
ServerList(kind, ns, selector) ==
    IF kind = "ReplicaSet"
    THEN SelectSeq(AllReplicaSets, LAMBDA rs : InNamespace(rs, ns))
    ELSE SelectSeq(AllPods,
            LAMBDA pod : InNamespace(pod, ns) /\ SelectorMatches(pod.labels, selector))

\* failures a read can meet besides the object's absence
TransientErrors == {ApiError(403), ServiceError}

\* the outcomes of Api::get for the named object
ServerGet(stored, name) ==
    (IF IsSome(stored) /\ Unwrap(stored).name = name
     THEN {Ok(Unwrap(stored))} ELSE {Err(ApiError(NOT_FOUND))})
    \cup {Err(e) : e \in TransientErrors}

\* the outcomes of Api::list
ServerListOutcomes(kind, ns, selector) ==
    {Ok(ServerList(kind, ns, selector))}
    \cup {Err(e) : e \in {ApiError(NOT_FOUND), ServiceError}}

\* Api::get_opt: a not-found API error becomes Ok(None)
get_opt(response) ==
    IF response.tag = "Ok" THEN Ok(Some(Unwrap(response.val)))
    ELSE IF Unwrap(response.err).variant = "Api"
            /\ is_not_found(Unwrap(response.err).status)
         THEN Ok(None)
         ELSE response

GetRequest(kind, namespace, name) ==
    [verb |-> "get", kind |-> kind, namespace |-> namespaced_k(namespace),
     name |-> Some(name), label_selector |-> None]
ListRequest(kind, namespace, selector) ==
    [verb |-> "list", kind |-> kind, namespace |-> namespaced_k(namespace),
     name |-> None, label_selector |-> selector]
Read(request, response) == [request |-> request, response |-> response]


(* ---------------------------------------------------------------------- *)
(* The resolver operations of KubeClientExt2                               *)
(* ---------------------------------------------------------------------- *)

\* list_replicasets(..)?.into_iter().filter(is_controlled_by).collect(), then sorted
controlled_replicasets(items, deployment_object) ==
    sort_by_key(SelectSeq(items, LAMBDA rs : is_controlled_by(rs, deployment_object)))

\* replicasets.iter().find(|rs| match_template_spec_no_hash(rs, deployment)):
\* the first element that matches, as an Option
find_new(sorted, deployment_object) ==
    LET hits == {i \in 1 .. Len(sorted) :
                    match_template_spec_no_hash(sorted[i].template,
                                                deployment_object.template)}
    IN IF hits = {} THEN None ELSE Some(sorted[MinOf(hits)])

pods_unfiltered(items, rs) == items

\* list_pods(..)?.into_iter().filter(|pod| pod.is_controlled_by(new)).collect()
pods_controlled_by(items, rs) ==
    SelectSeq(items, LAMBDA pod : is_controlled_by(pod, rs))

controller_revision_key_only(revision) == CONTROLLER_REVISION_HASH_LABEL_KEY

\* format!("{}={}", CONTROLLER_REVISION_HASH_LABEL_KEY, revision)
controller_revision(revision) ==
    CONTROLLER_REVISION_HASH_LABEL_KEY \o <<"=">> \o revision

\* the current replica sets, listed again, give the generation
reselected_replicaset(r) ==
    Unwrap(find_new(controlled_replicasets(AllReplicaSets, Unwrap(parent[r])),
                    Unwrap(parent[r])))

\* `new`, bound before the pod listing, is what the pod filter closes over
selected_replicaset(r) == Unwrap(new[r])

no_new_as_empty == Ok(Some(<<>>))

\* get_pods_by_deployment: `let Some(new) = .. else { return Ok(None) }`
no_new_replicaset == Ok(None)

no_revision_as_none == Ok(None)

\* get_pod_by_statefulset: `else { vec![] }`, then Ok(Some(pods))
no_revision == Ok(Some(<<>>))

parent_missing_as_empty == Ok(Some(<<>>))

\* the by-name operations: `let Some(..) = ..get_opt(..)? else { return Ok(None) }`
parent_missing == Ok(None)

error_as_none(e) == Ok(None)

\* the `?` operator on a failed read
propagate(e) == Err(e)

Operations == {"get_pods_by_deployment_name", "get_pods_by_deployment",
               "get_pods_by_statefulset_name", "get_pod_by_statefulset"}

Finish(r, value) ==
    /\ pc' = [pc EXCEPT ![r] = "done"]
    /\ result' = [result EXCEPT ![r] = Some(value)]

Log(r, request, response) ==
    reads' = [reads EXCEPT ![r] = Append(@, Read(request, response))]

\* get_pod_by_statefulset up to its first await
StartStatefulSet(r, sts) ==
    /\ parent' = [parent EXCEPT ![r] = Some(sts)]
    /\ IF IsSome(sts.current_revision)
       THEN /\ pc' = [pc EXCEPT ![r] = "pods_list"]
            /\ UNCHANGED result
       ELSE Finish(r, no_revision)

\* a caller invokes get_pods_by_deployment_name(name, namespace)
call_get_pods_by_deployment_name(r, name) ==
    /\ pc[r] = "idle"
    /\ op' = [op EXCEPT ![r] = [fn |-> "get_pods_by_deployment_name", name |-> name]]
    /\ pc' = [pc EXCEPT ![r] = "get_deployment_opt"]
    /\ UNCHANGED <<cluster, parent, new, reads, result, pure>>

\* self.get_deployment_opt(name, namespace).await? completes
get_deployment_opt(r) ==
    /\ pc[r] = "get_deployment_opt"
    /\ \E response \in ServerGet(deployment, op[r].name) :
          /\ Log(r, GetRequest("Deployment", Some(Namespace), op[r].name), response)
          /\ LET got == get_opt(response) IN
             IF got.tag = "Err"
             THEN Finish(r, propagate(Unwrap(got.err))) /\ UNCHANGED parent
             ELSE IF Unwrap(got.val) = None
             THEN Finish(r, parent_missing) /\ UNCHANGED parent
             ELSE /\ parent' = [parent EXCEPT ![r] = Unwrap(got.val)]
                  /\ pc' = [pc EXCEPT ![r] = "list_replicasets"]
                  /\ UNCHANGED result
    /\ UNCHANGED <<cluster, op, new, pure>>

\* a caller invokes get_pods_by_deployment(&deployment)
call_get_pods_by_deployment(r, deployment_object) ==
    /\ pc[r] = "idle"
    /\ op' = [op EXCEPT ![r] = [fn |-> "get_pods_by_deployment", name |-> deployment_object.name]]
    /\ parent' = [parent EXCEPT ![r] = Some(deployment_object)]
    /\ pc' = [pc EXCEPT ![r] = "list_replicasets"]
    /\ UNCHANGED <<cluster, new, reads, result, pure>>

\* self.list_replicasets(namespace).await? completes; the new replica set is sought
list_replicasets(r) ==
    /\ pc[r] = "list_replicasets"
    /\ LET d == Unwrap(parent[r]) IN
       \E response \in ServerListOutcomes("ReplicaSet", namespaced_k(d.namespace), None) :
          /\ Log(r, ListRequest("ReplicaSet", d.namespace, None), response)
          /\ IF response.tag = "Err"
             THEN Finish(r, propagate(Unwrap(response.err))) /\ UNCHANGED new
             ELSE LET found == find_new(controlled_replicasets(Unwrap(response.val), d), d) IN
                  IF found = None
                  THEN Finish(r, no_new_replicaset) /\ UNCHANGED new
                  ELSE /\ new' = [new EXCEPT ![r] = found]
                       /\ pc' = [pc EXCEPT ![r] = "list_pods"]
                       /\ UNCHANGED result
    /\ UNCHANGED <<cluster, op, parent, pure>>

\* self.list_pods(namespace).await? completes; the pods are filtered
list_pods(r) ==
    /\ pc[r] = "list_pods"
    /\ LET d == Unwrap(parent[r]) IN
       \E response \in ServerListOutcomes("Pod", namespaced_k(d.namespace), None) :
          /\ Log(r, ListRequest("Pod", d.namespace, None), response)
          /\ IF response.tag = "Err"
             THEN Finish(r, propagate(Unwrap(response.err)))
             ELSE Finish(r, Ok(Some(pods_controlled_by(Unwrap(response.val),
                                                       selected_replicaset(r)))))
    /\ UNCHANGED <<cluster, op, parent, new, pure>>

\* a caller invokes get_pods_by_statefulset_name(name, namespace)
call_get_pods_by_statefulset_name(r, name) ==
    /\ pc[r] = "idle"
    /\ op' = [op EXCEPT ![r] = [fn |-> "get_pods_by_statefulset_name", name |-> name]]
    /\ pc' = [pc EXCEPT ![r] = "get_statefulset_opt"]
    /\ UNCHANGED <<cluster, parent, new, reads, result, pure>>

\* self.get_statefulset_opt(name, namespace).await? completes
get_statefulset_opt(r) ==
    /\ pc[r] = "get_statefulset_opt"
    /\ \E response \in ServerGet(statefulset, op[r].name) :
          /\ Log(r, GetRequest("StatefulSet", Some(Namespace), op[r].name), response)
          /\ LET got == get_opt(response) IN
             IF got.tag = "Err"
             THEN Finish(r, propagate(Unwrap(got.err))) /\ UNCHANGED parent
             ELSE IF Unwrap(got.val) = None
             THEN Finish(r, parent_missing) /\ UNCHANGED parent
             ELSE StartStatefulSet(r, Unwrap(Unwrap(got.val)))
    /\ UNCHANGED <<cluster, op, new, pure>>

\* a caller invokes get_pod_by_statefulset(&statefulset)
call_get_pod_by_statefulset(r, statefulset_object) ==
    /\ pc[r] = "idle"
    /\ op' = [op EXCEPT ![r] = [fn |-> "get_pod_by_statefulset", name |-> statefulset_object.name]]
    /\ StartStatefulSet(r, statefulset_object)
    /\ UNCHANGED <<cluster, new, reads, pure>>

\* self.pods(namespace).list(&lp).await? completes
pods_list(r) ==
    /\ pc[r] = "pods_list"
    /\ LET sts == Unwrap(parent[r])
           lp == Some(controller_revision(Unwrap(sts.current_revision)))
       IN \E response \in ServerListOutcomes("Pod", namespaced_k(sts.namespace), lp) :
             /\ Log(r, ListRequest("Pod", sts.namespace, lp), response)
             /\ IF response.tag = "Err"
                THEN Finish(r, propagate(Unwrap(response.err)))
                ELSE Finish(r, Ok(Some(Unwrap(response.val))))
    /\ UNCHANGED <<cluster, op, parent, new, pure>>

NoOp == [fn |-> "none", name |-> "none"]

\* the caller takes the result; the resolver keeps nothing between calls
return(r) ==
    /\ pc[r] = "done"
    /\ pc' = [pc EXCEPT ![r] = "idle"]
    /\ op' = [op EXCEPT ![r] = NoOp]
    /\ parent' = [parent EXCEPT ![r] = None]
    /\ new' = [new EXCEPT ![r] = None]
    /\ reads' = [reads EXCEPT ![r] = <<>>]
    /\ result' = [result EXCEPT ![r] = None]
    /\ UNCHANGED <<cluster, pure>>

(* ---------------------------------------------------------------------- *)
(* The cluster changing under the resolver                                 *)
(* ---------------------------------------------------------------------- *)

\* the creation time of the latest replica set; the server's clock is monotonic
LatestTimestamp ==
    IF replicasets = {} THEN 1
    ELSE CHOOSE t \in {rs.ts : rs \in replicasets} : \A rs \in replicasets : rs.ts <= t

\* a replica set is created now, in the same second as the latest one or later
CreateReplicaSet(i, ts) ==
    /\ Cardinality(replicasets) < MaxReplicaSets
    /\ i \notin {rs.id : rs \in replicasets}
    /\ ts >= LatestTimestamp
    /\ replicasets' = replicasets \cup {[id |-> i, ts |-> ts]}
    /\ UNCHANGED <<deployment, statefulset, pods, calls, pure>>

\* a replica set's pods are created by its controller, once it exists
ControllerExists(i) ==
    \A ref \in PodOwners(i) :
        (ref.controller /\ ref.kind = "ReplicaSet" /\ PodNamespace(i) = Namespace)
            => \E rs \in replicasets : ReplicaSetName(rs.id) = ref.name

CreatePod(i) ==
    /\ Cardinality(pods) < MaxPods
    /\ i \notin pods
    /\ ControllerExists(i)
    /\ pods' = pods \cup {i}
    /\ UNCHANGED <<deployment, statefulset, replicasets, calls, pure>>

\* the StatefulSet controller reconciles and publishes its current revision
PublishRevision ==
    /\ IsSome(statefulset)
    /\ Unwrap(statefulset).current_revision = None
    /\ statefulset' = Some(StatefulSet(Unwrap(statefulset).name, Some(Rev1)))
    /\ UNCHANGED <<deployment, replicasets, pods, calls, pure>>

NoPure == [fn |-> "none"]

Init ==
    /\ deployment = Some(Deployment("web", TemplateA))
    /\ statefulset = Some(StatefulSet("db", None))
    /\ replicasets = {}
    /\ pods = {}
    /\ pc = [r \in Resolvers |-> "idle"]
    /\ op = [r \in Resolvers |-> NoOp]
    /\ parent = [r \in Resolvers |-> None]
    /\ new = [r \in Resolvers |-> None]
    /\ reads = [r \in Resolvers |-> <<>>]
    /\ result = [r \in Resolvers |-> None]
    /\ pure = NoPure

Next ==
    \/ \E name \in {"web", "missing"} : call_get_pods_by_deployment_name("r1", name)
    \/ get_deployment_opt("r1")
    \/ \E d \in DeploymentObjects : call_get_pods_by_deployment("r1", d)
    \/ list_replicasets("r1")
    \/ list_pods("r1")
    \/ \E name \in {"db", "missing"} : call_get_pods_by_statefulset_name("r1", name)
    \/ get_statefulset_opt("r1")
    \/ \E s \in StatefulSetObjects : call_get_pod_by_statefulset("r1", s)
    \/ pods_list("r1")
    \/ return("r1")
    \/ \E i \in ReplicaSetIds, ts \in 1 .. MaxTimestamp : CreateReplicaSet(i, ts)
    \/ \E i \in PodIds : CreatePod(i)
    \/ PublishRevision

\* one resolver call at a time against a changing cluster
Spec == Init /\ [][Next]_vars

\* Two callers resolve the Deployment "web" while its replica sets (rs1, rs2,
\* rs3) and the pods of its namespace (p1, p2, p3) are being created.
ConcNext ==
    \/ \E r \in Resolvers : call_get_pods_by_deployment(r, Deployment("web", TemplateA))
    \/ \E r \in Resolvers : list_replicasets(r)
    \/ \E r \in Resolvers : list_pods(r)
    \/ \E r \in Resolvers : return(r)
    \/ \E i \in {1, 2, 3}, ts \in 1 .. MaxTimestamp : CreateReplicaSet(i, ts)
    \/ \E i \in {1, 2, 3} : CreatePod(i)

\* two concurrent get_pods_by_deployment calls against a changing cluster
ConcSpec == Init /\ [][ConcNext]_vars

(* ---------------------------------------------------------------------- *)
(* The pure functions applied to every input                               *)
(* ---------------------------------------------------------------------- *)

OptionalTemplates == {None} \cup {Some(t) : t \in PodTemplateSpecs}

PureInit ==
    /\ deployment = Some(Deployment("web", TemplateA))
    /\ statefulset = Some(StatefulSet("db", None))
    /\ replicasets = {}
    /\ pods = {}
    /\ pc = [r \in Resolvers |-> "idle"]
    /\ op = [r \in Resolvers |-> NoOp]
    /\ parent = [r \in Resolvers |-> None]
    /\ new = [r \in Resolvers |-> None]
    /\ reads = [r \in Resolvers |-> <<>>]
    /\ result = [r \in Resolvers |-> None]
    /\ pure \in [fn : {"input"}, rs_template : OptionalTemplates,
                 deployment_template : OptionalTemplates, err : Errors, out : {None}]

Apply(fn, value) ==
    /\ pure.fn = "input"
    /\ pure' = [pure EXCEPT !.fn = fn, !.out = Some(value)]
    /\ UNCHANGED <<cluster, calls>>

apply_remove_hash ==
    /\ IsSome(pure.rs_template)
    /\ Apply("remove_hash", remove_hash(Unwrap(pure.rs_template)))

apply_match_template_spec_no_hash ==
    Apply("match_template_spec_no_hash",
          match_template_spec_no_hash(pure.rs_template, pure.deployment_template))

apply_not_found_ok == Apply("not_found_ok", not_found_ok(pure.err))

apply_ignore_not_found == Apply("ignore_not_found", ignore_not_found(pure.err))

PureNext ==
    \/ apply_remove_hash
    \/ apply_match_template_spec_no_hash
    \/ apply_not_found_ok
    \/ apply_ignore_not_found

PureSpec == PureInit /\ [][PureNext]_vars

(* ---------------------------------------------------------------------- *)
(* Vocabulary of the properties                                            *)
(* ---------------------------------------------------------------------- *)

DeploymentOps == {"get_pods_by_deployment_name", "get_pods_by_deployment"}
StatefulSetOps == {"get_pods_by_statefulset_name", "get_pod_by_statefulset"}
ByNameOps == {"get_pods_by_deployment_name", "get_pods_by_statefulset_name"}

Range(seq) == {seq[i] : i \in 1 .. Len(seq)}

\* the list reads of a call for one kind, in order
ListReads(r, kind) ==
    SelectSeq(reads[r], LAMBDA e : e.request.verb = "list" /\ e.request.kind = kind)

\* the call has received a successful listing of the kind
HasListing(r, kind) ==
    /\ Len(ListReads(r, kind)) > 0
    /\ ListReads(r, kind)[1].response.tag = "Ok"
Listing(r, kind) == Unwrap(ListReads(r, kind)[1].response.val)

\* the object has a controller owner reference of this kind and name
HasControllerRef(object, kind, name) ==
    \E ref \in object.owner_references :
        ref.controller = TRUE /\ ref.kind = kind /\ ref.name = name

\* replica sets of the listing controlled by the call's Deployment whose
\* canonicalized template equals the Deployment's canonicalized template
Eligible(r) ==
    LET d == Unwrap(parent[r]) IN
    {rs \in Range(Listing(r, "ReplicaSet")) :
        /\ HasControllerRef(rs, "Deployment", d.name)
        /\ OptionMapRemoveHash(rs.template) = OptionMapRemoveHash(d.template)}

Returned(r) == Unwrap(result[r])
IsOkNone(res) == res.tag = "Ok" /\ Unwrap(res.val) = None
IsOkSome(res) == res.tag = "Ok" /\ Unwrap(res.val) # None
PodsOf(res) == Unwrap(Unwrap(res.val))

IsNotFoundResponse(response) ==
    /\ response.tag = "Err"
    /\ Unwrap(response.err) = [variant |-> "Api", status |-> [code |-> 404]]

(* ---------------------------------------------------------------------- *)
(* Properties of the Deployment resolver                                   *)
(* ---------------------------------------------------------------------- *)

\* C1: once the replica-set listing has arrived, the selected generation is a
\* replica set of that listing that is controlled by the Deployment and whose
\* canonicalized template equals the Deployment's, with the least creation
\* timestamp among all such replica sets; none is selected iff there is none.
C1_EarliestControlledMatch ==
    \A r \in Resolvers :
        (op[r].fn \in DeploymentOps /\ HasListing(r, "ReplicaSet")) =>
            IF Eligible(r) = {} THEN new[r] = None
            ELSE /\ IsSome(new[r])
                 /\ Unwrap(new[r]) \in Eligible(r)
                 /\ \A rs \in Eligible(r) :
                       Unwrap(Unwrap(new[r]).creation_timestamp)
                           <= Unwrap(rs.creation_timestamp)

\* C1 witness: two eligible replica sets, the later name created first, and the
\* earlier-created one (second in the listing) is selected.
C1_Witness ==
    /\ op["r1"].fn \in DeploymentOps
    /\ HasListing("r1", "ReplicaSet")
    /\ Cardinality(Eligible("r1")) = 2
    /\ \E rs \in Eligible("r1") :
          Unwrap(rs.creation_timestamp) > Unwrap(Unwrap(new["r1"]).creation_timestamp)
    /\ Unwrap(new["r1"]).name = "rs2"

\* C2: a finished Deployment resolution that selected a generation and whose
\* pod listing succeeded returns exactly the pods of that listing that carry a
\* controller reference to the selected replica set, each once.
C2_ExactlyControlledPods ==
    \A r \in Resolvers :
        (/\ pc[r] = "done"
         /\ op[r].fn \in DeploymentOps
         /\ IsSome(new[r])
         /\ HasListing(r, "Pod")) =>
            LET items == Listing(r, "Pod")
                expected == {pod \in Range(items) :
                                HasControllerRef(pod, "ReplicaSet", Unwrap(new[r]).name)}
            IN /\ ListReads(r, "Pod")[1].request.namespace = Namespace
               /\ ListReads(r, "Pod")[1].request.label_selector = None
               /\ IsOkSome(Returned(r))
               /\ Range(PodsOf(Returned(r))) = expected
               /\ Len(PodsOf(Returned(r))) = Cardinality(expected)

\* C2 witness: the listing holds a pod of the selected replica set and a pod of
\* another generation; only the first is returned.
C2_Witness ==
    /\ pc["r1"] = "done"
    /\ op["r1"].fn \in DeploymentOps
    /\ IsSome(new["r1"])
    /\ Unwrap(new["r1"]).name = "rs1"
    /\ HasListing("r1", "Pod")
    /\ Listing("r1", "Pod") = <<Pod(1), Pod(2)>>
    /\ Returned("r1") = Ok(Some(<<Pod(1)>>))

\* C3: when the replica-set listing holds no eligible replica set the call is
\* finished with Ok(None) and has listed no pods; and a call that returned Ok
\* returned Ok(Some(..)) exactly when a generation was selected.
C3_NoneIffNoGeneration ==
    \A r \in Resolvers :
        op[r].fn \in DeploymentOps =>
            /\ (HasListing(r, "ReplicaSet") /\ Eligible(r) = {}) =>
                  /\ pc[r] = "done"
                  /\ result[r] = Some(Ok(None))
                  /\ Len(ListReads(r, "Pod")) = 0
            /\ (pc[r] = "done" /\ Returned(r).tag = "Ok") =>
                  (IsOkSome(Returned(r)) <=> IsSome(new[r]))

\* C3 witness: replica sets exist but none is eligible, and Ok(None) is returned.
C3_Witness ==
    /\ op["r1"].fn = "get_pods_by_deployment"
    /\ HasListing("r1", "ReplicaSet")
    /\ Len(Listing("r1", "ReplicaSet")) = 2
    /\ Eligible("r1") = {}
    /\ result["r1"] = Some(Ok(None))

(* ---------------------------------------------------------------------- *)
(* Properties of the StatefulSet resolver                                  *)
(* ---------------------------------------------------------------------- *)

\* C4: a StatefulSet resolution whose StatefulSet has no current revision is
\* finished with Ok(Some(empty)) and has listed no pods; and the by-name
\* operation returns Ok(None) only when its lookup answered not-found.
C4_NoRevisionIsEmpty ==
    \A r \in Resolvers :
        op[r].fn \in StatefulSetOps =>
            /\ (IsSome(parent[r]) /\ Unwrap(parent[r]).current_revision = None) =>
                  /\ pc[r] = "done"
                  /\ result[r] = Some(Ok(Some(<<>>)))
                  /\ Len(ListReads(r, "Pod")) = 0
            /\ (pc[r] = "done" /\ IsOkNone(Returned(r))) =>
                  /\ op[r].fn = "get_pods_by_statefulset_name"
                  /\ Len(reads[r]) = 1
                  /\ IsNotFoundResponse(reads[r][1].response)

\* C4 witness: get_pods_by_statefulset_name found a StatefulSet without a
\* revision while a pod exists, and returned the empty set after one read.
C4_Witness ==
    /\ op["r1"].fn = "get_pods_by_statefulset_name"
    /\ pc["r1"] = "done"
    /\ IsSome(parent["r1"])
    /\ Unwrap(parent["r1"]).current_revision = None
    /\ Len(reads["r1"]) = 1
    /\ result["r1"] = Some(Ok(Some(<<>>)))
    /\ pods # {}

RevisionSelector(revision) ==
    <<"c","o","n","t","r","o","l","l","e","r","-",
      "r","e","v","i","s","i","o","n","-","h","a","s","h","=">> \o revision

\* C5: a finished StatefulSet resolution with current revision R made exactly
\* one pod listing, in the StatefulSet's namespace with the selector
\* controller-revision-hash=R; when that listing succeeded its items are
\* returned unchanged and each carries the label value R.
C5_RevisionListingAsIs ==
    \A r \in Resolvers :
        (/\ op[r].fn \in StatefulSetOps
         /\ pc[r] = "done"
         /\ IsSome(parent[r])
         /\ IsSome(Unwrap(parent[r]).current_revision)) =>
            LET revision == Unwrap(Unwrap(parent[r]).current_revision)
                listings == ListReads(r, "Pod")
            IN /\ Len(listings) = 1
               /\ listings[1].request =
                     [verb |-> "list", kind |-> "Pod", namespace |-> Namespace,
                      name |-> None,
                      label_selector |-> Some(RevisionSelector(revision))]
               /\ listings[1].response.tag = "Ok" =>
                     /\ result[r] = Some(Ok(Some(Unwrap(listings[1].response.val))))
                     /\ \A pod \in Range(PodsOf(Returned(r))) :
                           /\ pod.namespace = Some(Namespace)
                           /\ IsSome(pod.labels)
                           /\ CONTROLLER_REVISION_HASH_LABEL_KEY \in DOMAIN Unwrap(pod.labels)
                           /\ Unwrap(pod.labels)[CONTROLLER_REVISION_HASH_LABEL_KEY] = revision

\* C5 witness: pods of two revisions exist; the one with the StatefulSet's
\* revision, although owned by a replica set, is returned.
C5_Witness ==
    /\ op["r1"].fn \in StatefulSetOps
    /\ pc["r1"] = "done"
    /\ pods = {1, 2}
    /\ IsSome(parent["r1"])
    /\ Unwrap(parent["r1"]).current_revision = Some(Rev1)
    /\ result["r1"] = Some(Ok(Some(<<Pod(1)>>)))


(* ---------------------------------------------------------------------- *)
(* Properties of the by-name operations and of failures                    *)
(* ---------------------------------------------------------------------- *)

\* what get_pods_by_deployment returns for a Deployment and the reads it makes
ByDeploymentResult(d, rest) ==
    IF rest[1].response.tag = "Err" THEN rest[1].response
    ELSE LET found == find_new(controlled_replicasets(Unwrap(rest[1].response.val), d), d)
         IN IF found = None THEN Ok(None)
            ELSE IF rest[2].response.tag = "Err" THEN rest[2].response
            ELSE Ok(Some(pods_controlled_by(Unwrap(rest[2].response.val), Unwrap(found))))

\* what get_pod_by_statefulset returns for a StatefulSet and the reads it makes
ByStatefulSetResult(sts, rest) ==
    IF sts.current_revision = None THEN Ok(Some(<<>>))
    ELSE IF rest[1].response.tag = "Err" THEN rest[1].response
    ELSE Ok(Some(Unwrap(rest[1].response.val)))

ByObjectResult(fn, object, rest) ==
    IF fn \in DeploymentOps THEN ByDeploymentResult(object, rest)
    ELSE ByStatefulSetResult(object, rest)

\* C6: a finished by-name call first got the named parent in the namespace;
\* when the answer was not-found it returned Ok(None) and made no other read;
\* when the parent was found it returned what the by-object operation returns
\* for the fetched parent and the reads that followed (as every by-object
\* call does for its argument).
C6_ByNameDelegates ==
    \A r \in Resolvers :
        pc[r] = "done" =>
            /\ op[r].fn \in ByNameOps =>
                  /\ reads[r][1].request =
                        [verb |-> "get",
                         kind |-> IF op[r].fn = "get_pods_by_deployment_name"
                                  THEN "Deployment" ELSE "StatefulSet",
                         namespace |-> Namespace, name |-> Some(op[r].name),
                         label_selector |-> None]
                  /\ IsNotFoundResponse(reads[r][1].response) =>
                        /\ result[r] = Some(Ok(None))
                        /\ Len(reads[r]) = 1
                  /\ reads[r][1].response.tag = "Ok" =>
                        /\ parent[r] = reads[r][1].response.val
                        /\ Returned(r) =
                              ByObjectResult(op[r].fn, Unwrap(parent[r]), Tail(reads[r]))
            /\ (op[r].fn \in Operations \ ByNameOps) =>
                  Returned(r) = ByObjectResult(op[r].fn, Unwrap(parent[r]), reads[r])

\* C6 witness: the named Deployment is missing while replica sets and pods
\* exist; Ok(None) is returned after the single lookup.
C6_Witness ==
    /\ op["r1"] = [fn |-> "get_pods_by_deployment_name", name |-> "missing"]
    /\ pc["r1"] = "done"
    /\ replicasets # {}
    /\ pods # {}
    /\ Len(reads["r1"]) = 1
    /\ result["r1"] = Some(Ok(None))

\* a failed read other than a not-found answer to the parent lookup
IsFatal(read) ==
    /\ read.response.tag = "Err"
    /\ ~(read.request.verb = "get" /\ IsNotFoundResponse(read.response))

\* C7: a read that failed (other than a not-found parent lookup) is the last
\* read of its call, the call is finished and returned that very error; no
\* request is issued twice; and an error is returned only for such a read.
C7_FailurePropagates ==
    \A r \in Resolvers :
        /\ \A i \in 1 .. Len(reads[r]) :
              IsFatal(reads[r][i]) =>
                  /\ i = Len(reads[r])
                  /\ pc[r] = "done"
                  /\ Returned(r).tag = "Err"
                  /\ Returned(r).err = reads[r][i].response.err
        /\ \A i, j \in 1 .. Len(reads[r]) :
              i # j => reads[r][i].request # reads[r][j].request
        /\ (pc[r] = "done" /\ Returned(r).tag = "Err") =>
              /\ Len(reads[r]) > 0
              /\ IsFatal(reads[r][Len(reads[r])])

\* C7 witness: get_pods_by_deployment_name found the parent and a generation,
\* the pod listing answered 404, and that API error is what the call returned.
C7_Witness ==
    /\ op["r1"].fn = "get_pods_by_deployment_name"
    /\ pc["r1"] = "done"
    /\ Len(reads["r1"]) = 3
    /\ IsNotFoundResponse(reads["r1"][3].response)
    /\ result["r1"] = Some(Err([variant |-> "Api", status |-> [code |-> 404]]))

(* ---------------------------------------------------------------------- *)
(* Concurrent cluster changes and concurrent calls                         *)
(* ---------------------------------------------------------------------- *)

CallState(r) == <<pc[r], op[r], parent[r], new[r], reads[r], result[r]>>

\* the generation comes from the replica-set listing the call received, and
\* the returned pods are controlled by that generation
TornViewState ==
    \A r \in Resolvers :
        IsSome(new[r]) =>
            /\ HasListing(r, "ReplicaSet")
            /\ Unwrap(new[r]) \in Range(Listing(r, "ReplicaSet"))
            /\ \A rs \in Range(AllReplicaSets) :
                  rs \notin Range(Listing(r, "ReplicaSet")) => new[r] # Some(rs)
            /\ (pc[r] = "done" /\ IsOkSome(Returned(r))) =>
                  \A pod \in Range(PodsOf(Returned(r))) :
                      HasControllerRef(pod, "ReplicaSet", Unwrap(new[r]).name)

\* a step of a call writes nothing to the cluster and touches no other call;
\* a replica-set listing returns every replica set existing at that moment
TornViewStep ==
    \A r \in Resolvers :
        CallState(r)' # CallState(r) =>
            /\ cluster' = cluster
            /\ \A q \in Resolvers \ {r} : CallState(q)' = CallState(q)
            /\ (pc[r] = "list_replicasets" /\ HasListing(r, "ReplicaSet")') =>
                  Listing(r, "ReplicaSet")' = AllReplicaSets

\* C9: the generation of a resolution is chosen from the snapshot its
\* replica-set listing returned, so a replica set created later is never its
\* generation and every pod it returns is controlled by the generation of the
\* snapshot; each replica-set listing sees all replica sets existing when it
\* is made; resolver steps write nothing and leave other calls untouched.
C9_TornView == [][TornViewStep]_vars /\ []TornViewState

\* C9 witness: a replica set was created between the two reads of call r1 (its
\* pod is in r1's pod listing but it is not in r1's snapshot); r1 returned only
\* pods of its own generation and the later call r2 has the new one in its
\* snapshot and selects it.
C9_Witness ==
    /\ pc["r1"] = "done" /\ pc["r2"] = "done"
    /\ HasListing("r1", "ReplicaSet") /\ HasListing("r2", "ReplicaSet")
    /\ HasListing("r1", "Pod")
    /\ IsSome(new["r1"]) /\ IsSome(new["r2"])
    /\ Unwrap(new["r2"]) \notin Range(Listing("r1", "ReplicaSet"))
    /\ \E pod \in Range(Listing("r1", "Pod")) :
          /\ HasControllerRef(pod, "ReplicaSet", Unwrap(new["r2"]).name)
          /\ pod \notin Range(PodsOf(Returned("r1")))
    /\ PodsOf(Returned("r1")) # <<>>

(* ---------------------------------------------------------------------- *)
(* Properties of the pure functions                                        *)
(* ---------------------------------------------------------------------- *)

HashFree(t) ==
    \/ labels_mut(t) = None
    \/ DEFAULT_DEPLOYMENT_UNIQUE_LABEL_KEY \notin DOMAIN Unwrap(labels_mut(t))

\* the template with the generated label set, creating the label map and the
\* metadata when absent
SetHash(t, h) ==
    LET meta == IF t.metadata = None THEN [labels |-> None, annotations |-> None]
                ELSE Unwrap(t.metadata)
        old == IF meta.labels = None THEN <<>> ELSE Unwrap(meta.labels)
        keys == (DOMAIN old) \cup {DEFAULT_DEPLOYMENT_UNIQUE_LABEL_KEY}
    IN [t EXCEPT !.metadata = Some([meta EXCEPT !.labels =
            Some([k \in keys |->
                    IF k = DEFAULT_DEPLOYMENT_UNIQUE_LABEL_KEY THEN h ELSE old[k]])])]

\* the templates differ at most in the generated label: both are one hash-free
\* template, each left alone or given some value of the label
DifferOnlyInHash(t1, t2) ==
    \E base \in PodTemplateSpecs :
        /\ HashFree(base)
        /\ {t1, t2} \subseteq {base} \cup {SetHash(base, h) : h \in LabelValues}

\* C8: templates that differ only in the generated label (value, or presence,
\* also when it is the only label and the other template has no label map or
\* no metadata) match; templates that differ otherwise do not.
C8_MatchIffOnlyHashDiffers ==
    (/\ pure.fn = "match_template_spec_no_hash"
     /\ IsSome(pure.rs_template)
     /\ IsSome(pure.deployment_template)) =>
        (Unwrap(pure.out)
            <=> DifferOnlyInHash(Unwrap(pure.rs_template), Unwrap(pure.deployment_template)))

\* C10: not_found_ok and ignore_not_found turn an API error with status 404
\* into Ok(Right(that status)) and return every other error as Err unchanged.
C10_NotFoundOk ==
    pure.fn \in {"not_found_ok", "ignore_not_found"} =>
        IF pure.err.variant = "Api" /\ pure.err.status.code = 404
        THEN Unwrap(pure.out) =
                [tag |-> "Ok", val |-> Some([side |-> "Right", status |-> pure.err.status]),
                 err |-> None]
        ELSE Unwrap(pure.out) = [tag |-> "Err", val |-> None, err |-> Some(pure.err)]

\* C10 witness: not_found_ok was applied to a 404 API error and gave Ok(Right).
C10_Witness ==
    /\ pure.fn = "not_found_ok"
    /\ pure.err = [variant |-> "Api", status |-> [code |-> 404]]
    /\ Unwrap(pure.out).tag = "Ok"
    /\ Unwrap(Unwrap(pure.out).val).side = "Right"

====
